---- MODULE Spec2Model ----
(***************************************************************************)
(* CARIS: the patient/professional consent subsystem                       *)
(* (models/professional.py, routes/professional.py) and the diary store    *)
(* it reads (models/diary.py, routes/diary.py).                            *)
(*                                                                         *)
(* One action per request handler.  current_user, the URL parameters and   *)
(* the form fields are the inputs of a handler and are drawn with \E.      *)
(* Every handler runs to completion (one request at a time).  Time is      *)
(* counted in half days, so that timedelta.days (a floor) is not the       *)
(* identity.                                                               *)
(***************************************************************************)
EXTENDS Integers, Sequences, FiniteSets, TLC

\* ---------------------------------------------------------------- bounds
NumPacientes == 2
NumProfissionais == 1
MaxVinculos == 2
MaxConsentimentos == 3
MaxEntradas == 1
MaxAgora == 66
\* Spec follows one Link through its life
MaxVinculosCiclo == 1
\* SpecPares follows two Links, and keeps a shorter ledger
MaxConsentimentosPares == 1
\* SpecDiario follows one Link and the journal
MaxVinculosDiario == 1
MaxConsentimentosDiario == 2
MaxAgoraDiario == 33

\* ------------------------------------------------------- program constants
TicksPorDia == 2
DiasExpiracao == 30
DiasHistoricoParcial == 14
DiasSemana == 7
DiasApiEmocoes == 30
LimiteEntradas == 50
LimitePainel == 10

\* None for a DateTime column, and for a String column
SemData == -1
SemMotivo == "None"
MotivoPadrao == "Sem motivo especificado"
MotivoProfissional == "Revogado pelo profissional"

\* ------------------------------------------------------------------ inputs
Pacientes == 1..NumPacientes
IdsProfissionais == 1..NumProfissionais
Anonimo == [tipo |-> "Anonymous", id |-> 0]
Users == [tipo : {"User"}, id : Pacientes]
Profissionais == [tipo : {"ProfissionalSaude"}, id : IdsProfissionais]
Principais == Users \cup Profissionais \cup {Anonimo}

\* codes as gerar_codigo_convite draws them (upper case letters and digits),
\* and the same codes as a patient may type them in the URL
Alfabeto == {"A1", "B2", "C3"}
CodigosURL == Alfabeto \cup {"a1"}
Motivos == {"privacidade"}
\* the values of the form field consentimento_completo
CamposCompleto == {"true", "false"}
Enderecos == {"10.0.0.1"}
Emocoes == {"Alegria"}
\* the steps of the clock, in half days: 30 days and a half or 33 days in
\* Spec, 33 days in SpecPares, 16 days and a half in SpecDiario
PassosCiclo == {61, 66}
PassosPares == {66}
PassosDiario == {33}

Categorias == {"historico_completo", "emocoes", "ciclos", "rituais"}

\* the usernames, emails and passwords of the registration and login forms;
\* user i of the initial store holds Nomes[i] and Emails[i]
Nomes == <<"ana", "bia", "caio", "davi">>
Emails == <<"ana@caris.org", "bia@caris.org", "caio@caris.org",
            "davi@caris.org">>
SenhaInicial == "clareza123"

VARIABLES vinculos, consentimentos, entradas, proxEntrada, agora, resp,
          usuarios, sessao, emCurso

vars == <<vinculos, consentimentos, entradas, proxEntrada, agora, resp,
          usuarios, sessao, emCurso>>

\* ----------------------------------------------------------------- helpers
\* str.upper() on the codes of CodigosURL
upper(c) == IF c = "a1" THEN "A1" ELSE c

\* timedelta.days of (utcnow - t)
dias(t) == (agora - t) \div TicksPorDia

\* utcnow - timedelta(days=n)
dias_atras(n) == agora - n * TicksPorDia

Ids == 1..Len(vinculos)

\* What is known of the last request: the route, the outcome, the Link it
\* resolved (0 if none), the patient data it rendered (one record per
\* patient), and, of a form that was applied, the field that decides what
\* is written ("" otherwise)
RespForm(rota, resultado, vid, dados, campo) ==
    [rota |-> rota, resultado |-> resultado, vid |-> vid, dados |-> dados,
     form |-> campo]

Resp(rota, resultado, vid, dados) == RespForm(rota, resultado, vid, dados, "")

\* faulty variant: the decorator that lets every request through
login_required_aberto(u) == TRUE

\* flask_login.login_required lets the request through
login_required(u) == u # Anonimo

\* the decorator of routes/professional.py lets the request through
professional_login_required(u) == u # Anonimo /\ u.tipo = "ProfissionalSaude"

\* the redirections the two decorators answer with, whatever the route
RespLogin == Resp("login_required", "auth.login", 0, {})
RespLoginProfissional ==
    Resp("professional_login_required", "professional.login", 0, {})

\* Query.first(): the row of lowest id among the matching rows, 0 for None
first(S) == IF S = {} THEN 0 ELSE CHOOSE i \in S : \A j \in S : i <= j

get_permissoes_resumo(v) ==
    [historico_completo |-> v.pode_ver_historico_completo,
     emocoes |-> v.pode_ver_emocoes,
     ciclos |-> v.pode_ver_ciclos,
     rituais |-> v.pode_ver_rituais]

\* a JSON column: the empty set for None, else the singleton of its value
SemSnapshot == {}

\* ----------------------------------------------------------- model methods
VinculoProfissionalPaciente(prof, pac, codigo) ==
    [profissional_id |-> prof, paciente_id |-> pac,
     codigo_convite |-> codigo,
     data_convite |-> agora, data_aceite |-> SemData,
     data_revogacao |-> SemData,
     status |-> "pendente",
     consentimento_ativo |-> FALSE, data_consentimento |-> SemData,
     motivo_revogacao |-> SemMotivo,
     pode_ver_historico_completo |-> TRUE, pode_ver_emocoes |-> TRUE,
     pode_ver_ciclos |-> TRUE, pode_ver_rituais |-> FALSE]

\* faulty variant: the acceptance that forgets the consent flag
aceitar_convite_sem_consentimento(v, consentimento_completo) ==
    LET a == [v EXCEPT !.status = "ativo",
                       !.data_aceite = agora, !.data_consentimento = agora]
    IN  IF ~consentimento_completo
        THEN [a EXCEPT !.pode_ver_historico_completo = FALSE,
                       !.pode_ver_rituais = FALSE]
        ELSE a

\* faulty variant: the acceptance whose partial branch keeps the full history
aceitar_convite_sem_rebaixar(v, consentimento_completo) ==
    LET a == [v EXCEPT !.status = "ativo", !.consentimento_ativo = TRUE,
                       !.data_aceite = agora, !.data_consentimento = agora]
    IN  IF ~consentimento_completo
        THEN [a EXCEPT !.pode_ver_rituais = FALSE]
        ELSE a

\* faulty variant: the acceptance whose full branch grants the full history
aceitar_convite_restaura(v, consentimento_completo) ==
    LET a == [v EXCEPT !.status = "ativo", !.consentimento_ativo = TRUE,
                       !.data_aceite = agora, !.data_consentimento = agora]
    IN  IF ~consentimento_completo
        THEN [a EXCEPT !.pode_ver_historico_completo = FALSE,
                       !.pode_ver_rituais = FALSE]
        ELSE [a EXCEPT !.pode_ver_historico_completo = TRUE]

aceitar_convite_metodo(v, consentimento_completo) ==
    LET a == [v EXCEPT !.status = "ativo", !.consentimento_ativo = TRUE,
                       !.data_aceite = agora, !.data_consentimento = agora]
    IN  IF ~consentimento_completo
        THEN [a EXCEPT !.pode_ver_historico_completo = FALSE,
                       !.pode_ver_rituais = FALSE]
        ELSE a

\* faulty variant: the revocation that records the date and the reason only
revogar_consentimento_sem_status(v, motivo) ==
    [v EXCEPT !.data_revogacao = agora, !.motivo_revogacao = motivo]

revogar_consentimento(v, motivo) ==
    [v EXCEPT !.status = "revogado", !.consentimento_ativo = FALSE,
              !.data_revogacao = agora, !.motivo_revogacao = motivo]

reativar_consentimento_metodo(v) ==
    [v EXCEPT !.status = "ativo", !.consentimento_ativo = TRUE,
              !.data_consentimento = agora, !.data_revogacao = SemData,
              !.motivo_revogacao = SemMotivo]

dias_desde_convite(v) == dias(v.data_convite)

convite_expirou(v) ==
    dias_desde_convite(v) > DiasExpiracao /\ v.status = "pendente"

\* faulty variant: the generator without the look-up of the stored codes
gerar_codigo_sem_verificacao == Alfabeto

\* faulty variant: the generator that looks only at the pending invitations
gerar_codigo_so_pendentes ==
    {c \in Alfabeto : \A i \in Ids :
        vinculos[i].status = "pendente" => vinculos[i].codigo_convite # c}

\* the codes no stored Link holds: the values the loop of
\* gerar_codigo_convite can return
gerar_codigo_convite ==
    {c \in Alfabeto : \A i \in Ids : vinculos[i].codigo_convite # c}

ConsentimentoPaciente(vid, acao, snapshot, motivo, ip) ==
    [vinculo_id |-> vid, acao |-> acao, data_acao |-> agora,
     permissoes_snapshot |-> snapshot, motivo |-> motivo, ip_address |-> ip]

\* ProfissionalSaude.pode_ver_paciente
pode_ver_paciente(prof, user_id) ==
    first({i \in Ids : /\ vinculos[i].profissional_id = prof
                       /\ vinculos[i].paciente_id = user_id
                       /\ vinculos[i].status = "ativo"
                       /\ vinculos[i].consentimento_ativo}) # 0

\* ProfissionalSaude.get_pacientes_ativos: one patient per matching Link,
\* in row order
get_pacientes_ativos(prof) ==
    {i \in Ids : /\ vinculos[i].profissional_id = prof
                 /\ vinculos[i].status = "ativo"
                 /\ vinculos[i].consentimento_ativo}

\* ------------------------------------------------------ users and sessions
\* werkzeug generate_password_hash, and check_password_hash against it
generate_password_hash(password) == <<"hash", password>>

\* models/user.py: User(username, email, password)
User(username, email, password) ==
    [username |-> username, email |-> email,
     password_hash |-> generate_password_hash(password)]

check_password(user, password) ==
    user.password_hash = generate_password_hash(password)

\* the session cookie of the one browser the model follows: the user_id
\* that login_user stored (0: none), and the kind of principal that logged
\* in (a record of the past, that the cookie does not hold)
Sessao(user_id, tipo) == [user_id |-> user_id, aberta_por |-> tipo]
SemSessao == Sessao(0, "Anonymous")

\* app.py load_user: User.query.get(int(user_id)), whatever login stored
\* the id; flask_login answers None with the anonymous user
load_user(user_id) ==
    IF user_id \in 1..Len(usuarios)
    THEN [tipo |-> "User", id |-> user_id]
    ELSE Anonimo

\* current_user of a request that carries the session cookie
current_user == load_user(sessao.user_id)

\* the store of the demonstration: NumPacientes users, no Link, no entry
UsuariosIniciais ==
    [i \in 1..NumPacientes |-> User(Nomes[i], Emails[i], SenhaInicial)]

\* a request slot that holds no request
Livre == [pc |-> "livre"]

Init ==
    /\ vinculos = <<>>
    /\ consentimentos = <<>>
    /\ entradas = {}
    /\ proxEntrada = 1
    /\ agora = 0
    /\ resp = Resp("inicio", "ok", 0, {})
    /\ usuarios = UsuariosIniciais
    /\ sessao = SemSessao
    /\ emCurso = <<Livre, Livre>>

\* what the handlers of the consent subsystem, run one at a time with
\* current_user as an input, leave alone
Fixos == UNCHANGED <<usuarios, sessao, emCurso>>

\* ------------------------------------------------------------------ clock
Relogio(d) ==
    /\ agora + d <= MaxAgora
    /\ agora' = agora + d
    /\ resp' = Resp("relogio", "ok", 0, {})
    /\ UNCHANGED <<vinculos, consentimentos, entradas, proxEntrada>>

\* ---------------------------------------------------------- routes/diary.py
new_entry(u, emotion) ==
    IF ~login_required(u)
    THEN /\ resp' = RespLogin
         /\ UNCHANGED <<vinculos, consentimentos, entradas, proxEntrada, agora>>
    ELSE /\ proxEntrada <= MaxEntradas
         /\ entradas' = entradas \cup
                {[id |-> proxEntrada, user_id |-> u.id,
                  emotion |-> emotion, created_at |-> agora]}
         /\ proxEntrada' = proxEntrada + 1
         /\ resp' = Resp("new_entry", "ok", 0, {})
         /\ UNCHANGED <<vinculos, consentimentos, agora>>


\* what a diary page renders to its own user
Proprias(parte, user_id, linhas) ==
    [parte |-> parte, profissional |-> 0, paciente |-> user_id,
     entradas |-> linhas, emocoes_de |-> linhas, ciclos_de |-> linhas]

view_entries(u) ==
    /\ UNCHANGED <<vinculos, consentimentos, entradas, proxEntrada, agora>>
    /\ IF ~login_required(u)
       THEN resp' = RespLogin
       ELSE resp' = Resp("view_entries", "ok", 0,
                {Proprias("view_entries", u.id,
                          {e \in entradas : e.user_id = u.id})})

\* first_or_404 of the entry with that id that belongs to current_user
entrada_propria(u, entry_id) ==
    {e \in entradas : e.id = entry_id /\ e.user_id = u.id}

view_entry(u, entry_id) ==
    /\ UNCHANGED <<vinculos, consentimentos, entradas, proxEntrada, agora>>
    /\ IF ~login_required(u)
       THEN resp' = RespLogin
       ELSE IF entrada_propria(u, entry_id) = {}
       THEN resp' = Resp("view_entry", "404", 0, {})
       ELSE resp' = Resp("view_entry", "ok", 0,
                {Proprias("view_entry", u.id, entrada_propria(u, entry_id))})

delete_entry(u, entry_id) ==
    /\ UNCHANGED <<vinculos, consentimentos, proxEntrada, agora>>
    /\ IF ~login_required(u)
       THEN /\ resp' = RespLogin
            /\ UNCHANGED entradas
       ELSE IF entrada_propria(u, entry_id) = {}
       THEN /\ resp' = Resp("delete_entry", "404", 0, {})
            /\ UNCHANGED entradas
       ELSE /\ entradas' = entradas \ entrada_propria(u, entry_id)
            /\ resp' = Resp("delete_entry", "ok", 0, {})

api_entries(u) ==
    /\ UNCHANGED <<vinculos, consentimentos, entradas, proxEntrada, agora>>
    /\ IF ~login_required(u)
       THEN resp' = RespLogin
       ELSE resp' = Resp("api_entries", "ok", 0,
                {Proprias("api_entries", u.id,
                          {e \in entradas : e.user_id = u.id})})

\* ------------------------------------------------------- queries on entries
\* faulty variant: the query without the filter on created_at
entradas_desde_sem_filtro(paciente_id, t) ==
    {e \in entradas : e.user_id = paciente_id}

\* DiaryEntry rows of a patient created at or after instant t
entradas_desde(paciente_id, t) ==
    {e \in entradas : e.user_id = paciente_id /\ e.created_at >= t}

entradas_de(paciente_id) == {e \in entradas : e.user_id = paciente_id}

\* order_by(created_at.desc()).limit(n)
recentes(S, n) ==
    {e \in S :
        Cardinality({f \in S : \/ f.created_at > e.created_at
                               \/ /\ f.created_at = e.created_at
                                  /\ f.id > e.id}) < n}

\* what a response renders to a professional about one patient: the entry
\* rows handed to the template, the entries whose emotion is counted, the
\* entries whose cycle is counted
Dados(parte, prof, paciente_id, linhas, emocoes_de, ciclos_de) ==
    [parte |-> parte, profissional |-> prof, paciente |-> paciente_id,
     entradas |-> linhas, emocoes_de |-> emocoes_de, ciclos_de |-> ciclos_de]

get_professional_dashboard_data(prof) ==
    {Dados("stats", prof, vinculos[i].paciente_id, {},
           entradas_desde(vinculos[i].paciente_id, dias_atras(DiasSemana)),
           entradas_desde(vinculos[i].paciente_id, dias_atras(DiasSemana)))
       : i \in get_pacientes_ativos(prof)}

\* ---------------------------------------------------- routes/professional.py
\* Each action is a request whose form validates (validate_on_submit); a GET
\* or an invalid form renders the form again and writes nothing.
painel(u) ==
    /\ IF ~professional_login_required(u)
       THEN resp' = RespLoginProfissional
       ELSE LET ativos == get_pacientes_ativos(u.id)
                dez == {i \in ativos :
                          Cardinality({j \in ativos : j < i}) < LimitePainel}
                pacientes_data ==
                    {Dados("pacientes_data", u.id, vinculos[i].paciente_id,
                           recentes(entradas_de(vinculos[i].paciente_id), 1),
                           entradas_desde(vinculos[i].paciente_id,
                                          dias_atras(DiasSemana)),
                           {}) : i \in dez}
            IN  resp' = Resp("painel", "ok", 0,
                             get_professional_dashboard_data(u.id)
                                \cup pacientes_data)
    /\ UNCHANGED <<vinculos, consentimentos, entradas, proxEntrada, agora>>

api_dashboard_stats(u) ==
    /\ IF ~professional_login_required(u)
       THEN resp' = RespLoginProfissional
       ELSE resp' = Resp("api_dashboard_stats", "ok", 0,
                         get_professional_dashboard_data(u.id))
    /\ UNCHANGED <<vinculos, consentimentos, entradas, proxEntrada, agora>>

\* faulty variant: the query that sees active Links only
vinculo_do_par_ativo(prof, paciente_id) ==
    first({i \in Ids : /\ vinculos[i].profissional_id = prof
                       /\ vinculos[i].paciente_id = paciente_id
                       /\ vinculos[i].status = "ativo"})

\* the query of convidar_paciente for the Link of the pair, whatever its
\* status
vinculo_do_par(prof, paciente_id) ==
    first({i \in Ids : /\ vinculos[i].profissional_id = prof
                       /\ vinculos[i].paciente_id = paciente_id})

\* faulty variant: the invitation that reissues every Link that is neither
\* active nor pending
convidar_paciente_reenvia_expirado(u, paciente_id) ==
    LET rota == "convidar_paciente"
        vinculo_existente == vinculo_do_par(u.id, paciente_id)
        parado(resultado) ==
            /\ resp' = Resp(rota, resultado, vinculo_existente, {})
            /\ UNCHANGED vinculos
    IN
    /\ UNCHANGED <<consentimentos, entradas, proxEntrada, agora>>
    /\ IF ~professional_login_required(u)
       THEN /\ resp' = RespLoginProfissional
            /\ UNCHANGED vinculos
       ELSE IF paciente_id = 0
       THEN /\ resp' = Resp(rota, "paciente_nao_encontrado", 0, {})
            /\ UNCHANGED vinculos
       ELSE IF vinculo_existente # 0
       THEN CASE vinculos[vinculo_existente].status = "ativo" ->
                    parado("ja_vinculado")
              [] vinculos[vinculo_existente].status = "pendente" ->
                    parado("pendente")
              [] OTHER ->
                    \E c \in gerar_codigo_convite :
                        /\ vinculos' = [vinculos EXCEPT ![vinculo_existente] =
                              [@ EXCEPT !.status = "pendente",
                                        !.data_convite = agora,
                                        !.codigo_convite = c]]
                        /\ resp' = Resp(rota, "novo_convite",
                                        vinculo_existente, {})
       ELSE /\ Len(vinculos) < MaxVinculos
            /\ \E c \in gerar_codigo_convite :
                 /\ vinculos' = Append(vinculos,
                        VinculoProfissionalPaciente(u.id, paciente_id, c))
                 /\ resp' = Resp(rota, "convite_enviado",
                                 Len(vinculos) + 1, {})

convidar_paciente(u, paciente_id) ==
    LET rota == "convidar_paciente"
        vinculo_existente == vinculo_do_par(u.id, paciente_id)
        parado(resultado) ==
            /\ resp' = Resp(rota, resultado, vinculo_existente, {})
            /\ UNCHANGED vinculos
    IN
    /\ UNCHANGED <<consentimentos, entradas, proxEntrada, agora>>
    /\ IF ~professional_login_required(u)
       THEN /\ resp' = RespLoginProfissional
            /\ UNCHANGED vinculos
       ELSE IF paciente_id = 0
       THEN /\ resp' = Resp(rota, "paciente_nao_encontrado", 0, {})
            /\ UNCHANGED vinculos
       ELSE IF vinculo_existente # 0
       THEN CASE vinculos[vinculo_existente].status = "ativo" ->
                    parado("ja_vinculado")
              [] vinculos[vinculo_existente].status = "pendente" ->
                    parado("pendente")
              [] vinculos[vinculo_existente].status = "revogado" ->
                    \E c \in gerar_codigo_convite :
                        /\ vinculos' = [vinculos EXCEPT ![vinculo_existente] =
                              [@ EXCEPT !.status = "pendente",
                                        !.data_convite = agora,
                                        !.codigo_convite = c]]
                        /\ resp' = Resp(rota, "novo_convite",
                                        vinculo_existente, {})
              [] OTHER -> parado("sem_mensagem")
       ELSE /\ Len(vinculos) < MaxVinculos
            /\ \E c \in gerar_codigo_convite :
                 /\ vinculos' = Append(vinculos,
                        VinculoProfissionalPaciente(u.id, paciente_id, c))
                 /\ resp' = Resp(rota, "convite_enviado",
                                 Len(vinculos) + 1, {})

ver_paciente(u, paciente_id) ==
    LET rota == "ver_paciente"
        vinculo == first({i \in Ids : /\ vinculos[i].profissional_id = u.id
                                      /\ vinculos[i].paciente_id = paciente_id
                                      /\ vinculos[i].status = "ativo"
                                      /\ vinculos[i].consentimento_ativo})
        query == IF ~vinculos[vinculo].pode_ver_historico_completo
                 THEN entradas_desde(paciente_id,
                                     dias_atras(DiasHistoricoParcial))
                 ELSE entradas_de(paciente_id)
        linhas == recentes(query, LimiteEntradas)
    IN
    /\ UNCHANGED <<vinculos, consentimentos, entradas, proxEntrada, agora>>
    /\ IF ~professional_login_required(u)
       THEN resp' = RespLoginProfissional
       ELSE IF ~pode_ver_paciente(u.id, paciente_id)
       THEN resp' = Resp(rota, "negado", 0, {})
       ELSE resp' = Resp(rota, "ok", vinculo,
                {Dados("paciente_detalhes", u.id, paciente_id, linhas,
                       IF vinculos[vinculo].pode_ver_emocoes
                          THEN linhas ELSE {},
                       IF vinculos[vinculo].pode_ver_ciclos
                          THEN linhas ELSE {})})

\* faulty variant: the professional's revocation that calls the model's
\* revogar_consentimento
revogar_acesso_revoga_consentimento(u, paciente_id) ==
    LET rota == "revogar_acesso"
        vinculo == first({i \in Ids : /\ vinculos[i].profissional_id = u.id
                                      /\ vinculos[i].paciente_id = paciente_id
                                      /\ vinculos[i].status = "ativo"})
    IN
    /\ UNCHANGED <<consentimentos, entradas, proxEntrada, agora>>
    /\ IF ~professional_login_required(u)
       THEN /\ resp' = RespLoginProfissional
            /\ UNCHANGED vinculos
       ELSE IF vinculo = 0
       THEN /\ resp' = Resp(rota, "404", 0, {})
            /\ UNCHANGED vinculos
       ELSE /\ vinculos' = [vinculos EXCEPT ![vinculo] =
                  revogar_consentimento(@, MotivoProfissional)]
            /\ resp' = Resp(rota, "ok", vinculo, {})

revogar_acesso(u, paciente_id) ==
    LET rota == "revogar_acesso"
        vinculo == first({i \in Ids : /\ vinculos[i].profissional_id = u.id
                                      /\ vinculos[i].paciente_id = paciente_id
                                      /\ vinculos[i].status = "ativo"})
    IN
    /\ UNCHANGED <<consentimentos, entradas, proxEntrada, agora>>
    /\ IF ~professional_login_required(u)
       THEN /\ resp' = RespLoginProfissional
            /\ UNCHANGED vinculos
       ELSE IF vinculo = 0
       THEN /\ resp' = Resp(rota, "404", 0, {})
            /\ UNCHANGED vinculos
       ELSE /\ vinculos' = [vinculos EXCEPT ![vinculo] =
                  [@ EXCEPT !.status = "revogado",
                            !.data_revogacao = agora,
                            !.motivo_revogacao = MotivoProfissional]]
            /\ resp' = Resp(rota, "ok", vinculo, {})

api_paciente_emocoes(u, paciente_id) ==
    LET rota == "api_paciente_emocoes"
        vinculo == first({i \in Ids : /\ vinculos[i].profissional_id = u.id
                                      /\ vinculos[i].paciente_id = paciente_id
                                      /\ vinculos[i].status = "ativo"})
    IN
    /\ UNCHANGED <<vinculos, consentimentos, entradas, proxEntrada, agora>>
    /\ IF ~professional_login_required(u)
       THEN resp' = RespLoginProfissional
       ELSE IF ~pode_ver_paciente(u.id, paciente_id)
       THEN resp' = Resp(rota, "403", 0, {})
       ELSE IF ~vinculos[vinculo].pode_ver_emocoes
       THEN resp' = Resp(rota, "403", vinculo, {})
       ELSE resp' = Resp(rota, "ok", vinculo,
                {Dados("emocoes", u.id, paciente_id, {},
                       entradas_desde(paciente_id,
                                      dias_atras(DiasApiEmocoes)),
                       {})})


\* faulty variant: the query without the filter on the patient
convite_de_qualquer_paciente(u, codigo) ==
    first({i \in Ids : /\ vinculos[i].codigo_convite = upper(codigo)
                       /\ vinculos[i].status = "pendente"})

\* faulty variant: the query without the status filter
convite_de_qualquer_status(u, codigo) ==
    first({i \in Ids : /\ vinculos[i].codigo_convite = upper(codigo)
                       /\ vinculos[i].paciente_id = u.id})

\* the query of aceitar_convite and of confirmar_convite: the pending Link
\* of the current user that holds the code
convite_pendente(u, codigo) ==
    first({i \in Ids : /\ vinculos[i].codigo_convite = upper(codigo)
                       /\ vinculos[i].paciente_id = u.id
                       /\ vinculos[i].status = "pendente"})

\* GET /aceitar-convite/<codigo>: the patient looks at an invitation
aceitar_convite(u, codigo) ==
    LET rota == "aceitar_convite"
        vinculo == convite_pendente(u, codigo)
    IN
    /\ UNCHANGED <<consentimentos, entradas, proxEntrada, agora>>
    /\ IF ~login_required(u)
       THEN /\ resp' = RespLogin
            /\ UNCHANGED vinculos
       ELSE IF u.tipo = "ProfissionalSaude"
       THEN /\ resp' = Resp(rota, "profissional", 0, {})
            /\ UNCHANGED vinculos
       ELSE IF vinculo = 0
       THEN /\ resp' = Resp(rota, "nao_encontrado", 0, {})
            /\ UNCHANGED vinculos
       ELSE IF convite_expirou(vinculos[vinculo])
       THEN /\ vinculos' = [vinculos EXCEPT ![vinculo].status = "expirado"]
            /\ resp' = Resp(rota, "expirado", vinculo, {})
       ELSE /\ resp' = Resp(rota, "ok", vinculo, {})
            /\ UNCHANGED vinculos

\* POST /confirmar-convite/<codigo>
confirmar_convite(u, codigo, campo, ip) ==
    LET rota == "confirmar_convite"
        vinculo == convite_pendente(u, codigo)
        consentimento_completo == campo = "true"
        aceito == aceitar_convite_metodo(vinculos[vinculo],
                                         consentimento_completo)
    IN
    /\ UNCHANGED <<entradas, proxEntrada, agora>>
    /\ IF ~login_required(u)
       THEN /\ resp' = RespLogin
            /\ UNCHANGED <<vinculos, consentimentos>>
       ELSE IF vinculo = 0
       THEN /\ resp' = Resp(rota, "404", 0, {})
            /\ UNCHANGED <<vinculos, consentimentos>>
       ELSE /\ Len(consentimentos) < MaxConsentimentos
            /\ vinculos' = [vinculos EXCEPT ![vinculo] = aceito]
            /\ consentimentos' = Append(consentimentos,
                  ConsentimentoPaciente(vinculo, "concedido",
                      {get_permissoes_resumo(aceito)}, SemMotivo, ip))
            /\ resp' = RespForm(rota, "ok", vinculo, {}, campo)

\* faulty variant: the revocation that keeps one record per Link, and writes
\* over the record the Link already has
revogar_consentimento_paciente_regrava(u, vinculo_id, motivo_form, ip) ==
    LET rota == "revogar_consentimento_paciente"
        vinculo == first({i \in Ids : /\ i = vinculo_id
                                      /\ vinculos[i].paciente_id = u.id})
        motivo == IF motivo_form = SemMotivo THEN MotivoPadrao
                                             ELSE motivo_form
        anterior == first({k \in 1..Len(consentimentos) :
                              consentimentos[k].vinculo_id = vinculo})
        registro == ConsentimentoPaciente(vinculo, "revogado",
                                          SemSnapshot, motivo, ip)
    IN
    /\ UNCHANGED <<entradas, proxEntrada, agora>>
    /\ IF ~login_required(u)
       THEN /\ resp' = RespLogin
            /\ UNCHANGED <<vinculos, consentimentos>>
       ELSE IF vinculo = 0
       THEN /\ resp' = Resp(rota, "404", 0, {})
            /\ UNCHANGED <<vinculos, consentimentos>>
       ELSE /\ Len(consentimentos) < MaxConsentimentos
            /\ vinculos' = [vinculos EXCEPT ![vinculo] =
                              revogar_consentimento(@, motivo)]
            /\ consentimentos' =
                  IF anterior # 0
                  THEN [consentimentos EXCEPT ![anterior] = registro]
                  ELSE Append(consentimentos, registro)
            /\ resp' = RespForm(rota, "ok", vinculo, {}, motivo_form)

\* POST /revogar-consentimento/<vinculo_id>
revogar_consentimento_paciente(u, vinculo_id, motivo_form, ip) ==
    LET rota == "revogar_consentimento_paciente"
        vinculo == first({i \in Ids : /\ i = vinculo_id
                                      /\ vinculos[i].paciente_id = u.id})
        motivo == IF motivo_form = SemMotivo THEN MotivoPadrao
                                             ELSE motivo_form
    IN
    /\ UNCHANGED <<entradas, proxEntrada, agora>>
    /\ IF ~login_required(u)
       THEN /\ resp' = RespLogin
            /\ UNCHANGED <<vinculos, consentimentos>>
       ELSE IF vinculo = 0
       THEN /\ resp' = Resp(rota, "404", 0, {})
            /\ UNCHANGED <<vinculos, consentimentos>>
       ELSE /\ Len(consentimentos) < MaxConsentimentos
            /\ vinculos' = [vinculos EXCEPT ![vinculo] =
                              revogar_consentimento(@, motivo)]
            /\ consentimentos' = Append(consentimentos,
                  ConsentimentoPaciente(vinculo, "revogado",
                      SemSnapshot, motivo, ip))
            /\ resp' = RespForm(rota, "ok", vinculo, {}, motivo_form)

\* VinculoProfissionalPaciente.reativar_consentimento: a method of the model
\* that no route calls
reativar_consentimento(vinculo) ==
    /\ vinculos' = [vinculos EXCEPT ![vinculo] =
                      reativar_consentimento_metodo(@)]
    /\ resp' = Resp("reativar_consentimento", "ok", vinculo, {})
    /\ UNCHANGED <<consentimentos, entradas, proxEntrada, agora>>

\* ------------------------------------------------------------ routes/auth.py
MaxUsuarios == 3
NomeCurto == "ab"
SenhaCurta == "curta"
EmailMalFormado == "caris.org"

\* len() of the strings of the forms
len(texto) ==
    CASE texto = NomeCurto -> 2
      [] texto \in {"ana", "bia"} -> 3
      [] texto \in {"caio", "davi"} -> 4
      [] texto = SenhaCurta -> 5
      [] texto = EmailMalFormado -> 9
      [] texto = SenhaInicial -> 10
      [] OTHER -> 13

\* wtforms Length(min, max)
Length(texto, min, max) == len(texto) >= min /\ len(texto) <= max

\* wtforms Email()
Email(texto) == texto # EmailMalFormado

por_username(username) ==
    first({i \in 1..Len(usuarios) : usuarios[i].username = username})

por_email(email) ==
    first({i \in 1..Len(usuarios) : usuarios[i].email = email})

\* faulty variant: the validator that lets every username through
validate_username_aberto(username) == TRUE

\* RegistrationForm.validate_username, validate_email
validate_username(username) == por_username(username) = 0

validate_email(email) == por_email(email) = 0

\* RegistrationForm.validate_on_submit
RegistrationForm(username, email, password, password2) ==
    /\ Length(username, 3, 64) /\ validate_username(username)
    /\ Email(email) /\ Length(email, 1, 120) /\ validate_email(email)
    /\ Length(password, 8, 128)
    /\ password2 = password

register(u, username, email, password, password2) ==
    /\ UNCHANGED <<vinculos, consentimentos, entradas, proxEntrada, agora,
                   sessao, emCurso>>
    /\ IF u # Anonimo
       THEN /\ resp' = Resp("register", "dashboard.index", 0, {})
            /\ UNCHANGED usuarios
       ELSE IF ~RegistrationForm(username, email, password, password2)
       THEN /\ resp' = Resp("register", "invalido", 0, {})
            /\ UNCHANGED usuarios
       ELSE /\ Len(usuarios) < MaxUsuarios
            /\ usuarios' = Append(usuarios, User(username, email, password))
            /\ resp' = Resp("register", "ok", 0, {})

login(u, username, password) ==
    LET user == por_username(username) IN
    /\ UNCHANGED <<vinculos, consentimentos, entradas, proxEntrada, agora,
                   usuarios, emCurso>>
    /\ IF u # Anonimo
       THEN /\ resp' = Resp("login", "dashboard.index", 0, {})
            /\ UNCHANGED sessao
       ELSE IF user # 0 /\ check_password(usuarios[user], password)
       THEN /\ sessao' = Sessao(user, "User")
            /\ resp' = Resp("login", "ok", 0, {})
       ELSE /\ resp' = Resp("login", "invalido", 0, {})
            /\ UNCHANGED sessao

logout(u) ==
    /\ UNCHANGED <<vinculos, consentimentos, entradas, proxEntrada, agora,
                   usuarios, emCurso>>
    /\ IF ~login_required(u)
       THEN /\ resp' = RespLogin
            /\ UNCHANGED sessao
       ELSE /\ sessao' = SemSessao
            /\ resp' = Resp("logout", "ok", 0, {})

\* routes/professional.py login: profissional is the ProfissionalSaude row
\* that the email and the password of the form match, 0 if none does
professional_login(profissional) ==
    /\ UNCHANGED <<vinculos, consentimentos, entradas, proxEntrada, agora,
                   usuarios, emCurso>>
    /\ IF profissional # 0
       THEN /\ sessao' = Sessao(profissional, "ProfissionalSaude")
            /\ resp' = Resp("professional_login", "ok", 0, {})
       ELSE /\ resp' = Resp("professional_login", "invalido", 0, {})
            /\ UNCHANGED sessao

\* ------------------------------------------------------------ specification
\* the handlers that write Links and consent records
Escritas ==
    \/ \E u \in Principais, p \in 0..NumPacientes : convidar_paciente(u, p)
    \/ \E u \in Principais, p \in Pacientes : revogar_acesso(u, p)
    \/ \E u \in Principais, c \in CodigosURL : aceitar_convite(u, c)
    \/ \E u \in Principais, c \in CodigosURL, campo \in CamposCompleto,
          ip \in Enderecos : confirmar_convite(u, c, campo, ip)
    \/ \E u \in Principais, i \in 1..MaxVinculos,
          m \in Motivos \cup {SemMotivo}, ip \in Enderecos :
          revogar_consentimento_paciente(u, i, m, ip)

\* the handlers that render patient data to a professional
Leituras ==
    \E u \in Principais :
        \/ painel(u)
        \/ api_dashboard_stats(u)
        \/ \E p \in Pacientes : ver_paciente(u, p)
        \/ \E p \in Pacientes : api_paciente_emocoes(u, p)

\* The consent state machine, one Link.  The journal and the reads are left
\* out: they write none of vinculos, consentimentos, agora, and the handlers
\* of Escritas read none of entradas, proxEntrada.
Next ==
    \/ \E d \in PassosCiclo : Relogio(d) /\ Fixos
    \/ Escritas /\ Len(vinculos') <= MaxVinculosCiclo /\ Fixos

Spec == Init /\ [][Next]_vars

\* The consent state machine, two Links
NextPares ==
    \/ \E d \in PassosPares : Relogio(d) /\ Fixos
    \/ Escritas /\ Len(consentimentos') <= MaxConsentimentosPares /\ Fixos

SpecPares == Init /\ [][NextPares]_vars

\* The consent state machine together with the journal and the reads of it
NextDiario ==
    \/ \E d \in PassosDiario : Relogio(d) /\ agora' <= MaxAgoraDiario /\ Fixos
    \/ /\ Escritas
       /\ Len(vinculos') <= MaxVinculosDiario
       /\ Len(consentimentos') <= MaxConsentimentosDiario
       /\ Fixos
    \/ \E u \in Principais, e \in Emocoes : new_entry(u, e) /\ Fixos
    \/ Leituras /\ Fixos

SpecDiario == Init /\ [][NextDiario]_vars

\* The consent state machine with two professionals and two Links
NumProfissionaisPartes == 2
MaxVinculosPartes == 2
MaxConsentimentosPartes == 1
PrincipaisPartes ==
    Users \cup [tipo : {"ProfissionalSaude"}, id : 1..NumProfissionaisPartes]
       \cup {Anonimo}

EscritasPartes ==
    \/ \E u \in PrincipaisPartes, p \in 0..NumPacientes :
          convidar_paciente(u, p)
    \/ \E u \in PrincipaisPartes, p \in Pacientes : revogar_acesso(u, p)
    \/ \E u \in PrincipaisPartes, c \in CodigosURL : aceitar_convite(u, c)
    \/ \E u \in PrincipaisPartes, c \in CodigosURL, campo \in CamposCompleto,
          ip \in Enderecos : confirmar_convite(u, c, campo, ip)
    \/ \E u \in PrincipaisPartes, i \in 1..MaxVinculos,
          m \in Motivos \cup {SemMotivo}, ip \in Enderecos :
          revogar_consentimento_paciente(u, i, m, ip)

NextPartes ==
    \/ \E d \in PassosPares : Relogio(d) /\ Fixos
    \/ /\ EscritasPartes
       /\ Len(vinculos') <= MaxVinculosPartes
       /\ Len(consentimentos') <= MaxConsentimentosPartes
       /\ Fixos

SpecPartes == Init /\ [][NextPartes]_vars

\* The accounts and the diary, as one browser requests them: current_user
\* is what load_user makes of the session cookie
NomesForm == {Nomes[1], Nomes[NumPacientes + 1], NomeCurto}
EmailsForm == {Emails[1], Emails[NumPacientes + 1], EmailMalFormado}
SenhasForm == {SenhaInicial, SenhaCurta}

Contas ==
    \/ \E n \in NomesForm, e \in EmailsForm, s \in SenhasForm,
          s2 \in SenhasForm : register(current_user, n, e, s, s2)
    \/ \E n \in NomesForm, s \in SenhasForm : login(current_user, n, s)
    \/ logout(current_user)
    \/ \E p \in 0..NumProfissionais : professional_login(p)

NextConta ==
    \/ Contas
    \/ \E e \in Emocoes : new_entry(current_user, e) /\ Fixos
    \/ view_entries(current_user) /\ Fixos
    \/ \E i \in 1..MaxEntradas : view_entry(current_user, i) /\ Fixos
    \/ \E i \in 1..MaxEntradas : delete_entry(current_user, i) /\ Fixos
    \/ api_entries(current_user) /\ Fixos

SpecConta == Init /\ [][NextConta]_vars

\* the routes together with the model method that no route calls
NextMetodos == Next \/ \E i \in Ids : reativar_consentimento(i) /\ Fixos

SpecMetodos == Init /\ [][NextMetodos]_vars

\* ------------------------------------------------- two requests in flight
\* The two patient routes that write, cut where they commit: the query at
\* the head of the handler, the method of the model with its
\* db.session.commit(), and the ConsentimentoPaciente added and committed
\* after it.  emCurso[r] is the request that worker r is serving.
Trabalhadores == DOMAIN emCurso
EmVoo == {r \in Trabalhadores : emCurso[r].pc # "livre"}

Pedido(pc, rota, vinculo, lido, form, ip) ==
    [pc |-> pc, rota |-> rota, vinculo |-> vinculo, lido |-> lido,
     form |-> form, ip |-> ip]

\* db.session.commit() of a row that was read as lido and that the method
\* left as novo: the UPDATE carries the columns whose value the method
\* changed, and the other columns of the stored row stay as they are
commit(lido, novo, armazenado) ==
    [c \in DOMAIN armazenado |->
        IF novo[c] # lido[c] THEN novo[c] ELSE armazenado[c]]

\* confirmar_convite, lines 472-482: the query for the pending invitation
confirmar_convite_consulta(r, u, codigo, campo, ip) ==
    LET rota == "confirmar_convite"
        vinculo == convite_pendente(u, codigo)
    IN
    /\ emCurso[r].pc = "livre"
    /\ UNCHANGED <<vinculos, consentimentos, entradas, proxEntrada, agora,
                   usuarios, sessao>>
    /\ IF ~login_required(u)
       THEN /\ resp' = RespLogin
            /\ UNCHANGED emCurso
       ELSE IF vinculo = 0
       THEN /\ resp' = Resp(rota, "404", 0, {})
            /\ UNCHANGED emCurso
       ELSE /\ Len(consentimentos) + Cardinality(EmVoo) < MaxConsentimentos
            /\ emCurso' = [emCurso EXCEPT ![r] =
                  Pedido("lido", rota, vinculo, vinculos[vinculo], campo, ip)]
            /\ UNCHANGED resp

\* confirmar_convite, line 485: vinculo.aceitar_convite(...), that commits
\* (models/professional.py line 146)
confirmar_convite_aceitar(r) ==
    LET p == emCurso[r]
        aceito == aceitar_convite_metodo(p.lido, p.form = "true")
    IN
    /\ p.pc = "lido"
    /\ p.rota = "confirmar_convite"
    /\ vinculos' = [vinculos EXCEPT ![p.vinculo] =
                      commit(p.lido, aceito, @)]
    /\ emCurso' = [emCurso EXCEPT ![r].pc = "gravado"]
    /\ UNCHANGED <<consentimentos, entradas, proxEntrada, agora, resp,
                   usuarios, sessao>>

\* confirmar_convite, lines 487-498: the record of the consent, with the
\* permissions of the row as it is read again after the commit
confirmar_convite_registrar(r) ==
    LET p == emCurso[r] IN
    /\ p.pc = "gravado"
    /\ p.rota = "confirmar_convite"
    /\ consentimentos' = Append(consentimentos,
          ConsentimentoPaciente(p.vinculo, "concedido",
              {get_permissoes_resumo(vinculos[p.vinculo])}, SemMotivo, p.ip))
    /\ resp' = RespForm(p.rota, "ok", p.vinculo, {}, p.form)
    /\ emCurso' = [emCurso EXCEPT ![r] = Livre]
    /\ UNCHANGED <<vinculos, entradas, proxEntrada, agora, usuarios, sessao>>

\* revogar_consentimento_paciente, lines 514-521: the query for the Link
revogar_consentimento_paciente_consulta(r, u, vinculo_id, motivo_form, ip) ==
    LET rota == "revogar_consentimento_paciente"
        vinculo == first({i \in Ids : /\ i = vinculo_id
                                      /\ vinculos[i].paciente_id = u.id})
    IN
    /\ emCurso[r].pc = "livre"
    /\ UNCHANGED <<vinculos, consentimentos, entradas, proxEntrada, agora,
                   usuarios, sessao>>
    /\ IF ~login_required(u)
       THEN /\ resp' = RespLogin
            /\ UNCHANGED emCurso
       ELSE IF vinculo = 0
       THEN /\ resp' = Resp(rota, "404", 0, {})
            /\ UNCHANGED emCurso
       ELSE /\ Len(consentimentos) + Cardinality(EmVoo) < MaxConsentimentos
            /\ emCurso' = [emCurso EXCEPT ![r] =
                  Pedido("lido", rota, vinculo, vinculos[vinculo],
                         motivo_form, ip)]
            /\ UNCHANGED resp

\* revogar_consentimento_paciente, lines 523-524:
\* vinculo.revogar_consentimento(motivo), that commits
\* (models/professional.py line 154)
revogar_consentimento_paciente_revogar(r) ==
    LET p == emCurso[r]
        motivo == IF p.form = SemMotivo THEN MotivoPadrao ELSE p.form
    IN
    /\ p.pc = "lido"
    /\ p.rota = "revogar_consentimento_paciente"
    /\ vinculos' = [vinculos EXCEPT ![p.vinculo] =
                      commit(p.lido, revogar_consentimento(p.lido, motivo), @)]
    /\ emCurso' = [emCurso EXCEPT ![r].pc = "gravado"]
    /\ UNCHANGED <<consentimentos, entradas, proxEntrada, agora, resp,
                   usuarios, sessao>>

\* revogar_consentimento_paciente, lines 526-537: the record of the
\* revocation
revogar_consentimento_paciente_registrar(r) ==
    LET p == emCurso[r]
        motivo == IF p.form = SemMotivo THEN MotivoPadrao ELSE p.form
    IN
    /\ p.pc = "gravado"
    /\ p.rota = "revogar_consentimento_paciente"
    /\ consentimentos' = Append(consentimentos,
          ConsentimentoPaciente(p.vinculo, "revogado",
              SemSnapshot, motivo, p.ip))
    /\ resp' = RespForm(p.rota, "ok", p.vinculo, {}, p.form)
    /\ emCurso' = [emCurso EXCEPT ![r] = Livre]
    /\ UNCHANGED <<vinculos, entradas, proxEntrada, agora, usuarios, sessao>>

\* Two workers serve the patient routes that write, on the one Link that
\* the invitation of the professional created.
NextPassos ==
    \/ \E u \in Principais, p \in 0..NumPacientes :
          /\ convidar_paciente(u, p)
          /\ Len(vinculos') <= MaxVinculosCiclo
          /\ Fixos
    \/ \E r \in Trabalhadores, u \in Principais, c \in CodigosURL,
          campo \in CamposCompleto, ip \in Enderecos :
          confirmar_convite_consulta(r, u, c, campo, ip)
    \/ \E r \in Trabalhadores : confirmar_convite_aceitar(r)
    \/ \E r \in Trabalhadores : confirmar_convite_registrar(r)
    \/ \E r \in Trabalhadores, u \in Principais, i \in 1..MaxVinculos,
          m \in Motivos \cup {SemMotivo}, ip \in Enderecos :
          revogar_consentimento_paciente_consulta(r, u, i, m, ip)
    \/ \E r \in Trabalhadores : revogar_consentimento_paciente_revogar(r)
    \/ \E r \in Trabalhadores : revogar_consentimento_paciente_registrar(r)

SpecPassos == Init /\ [][NextPassos]_vars


\* ================================================================== claims
\* The access gate of section 4.3, as the handlers compose it: the Link of
\* the pair is active and consented (pode_ver_paciente) and its flag for the
\* category is set
pode_ver(prof, paciente_id, categoria) ==
    /\ pode_ver_paciente(prof, paciente_id)
    /\ \E i \in Ids :
         /\ vinculos[i].profissional_id = prof
         /\ vinculos[i].paciente_id = paciente_id
         /\ vinculos[i].status = "ativo"
         /\ get_permissoes_resumo(vinculos[i])[categoria]

RotasDeLeitura ==
    {"painel", "api_dashboard_stats", "ver_paciente", "api_paciente_emocoes"}

\* the entries a rendered record discloses, as rows or inside a count
divulgadas(d) == d.entradas \cup d.emocoes_de \cup d.ciclos_de

\* an entry outside the trailing 14 days: reading it is a full-history read
fora_da_janela(e) == e.created_at < dias_atras(DiasHistoricoParcial)

\* C1: whatever a response renders to a professional about a patient is
\* covered by a Link of the pair that is active and consented, and each
\* category of data in it (emotions, cycles, entries older than the trailing
\* 14 days) by that Link's capability flag.
C1_LeituraSoComPermissao ==
    resp.rota \in RotasDeLeitura =>
        \A d \in resp.dados :
            /\ pode_ver_paciente(d.profissional, d.paciente)
            /\ d.emocoes_de # {} =>
                  pode_ver(d.profissional, d.paciente, "emocoes")
            /\ d.ciclos_de # {} =>
                  pode_ver(d.profissional, d.paciente, "ciclos")
            /\ (\E e \in divulgadas(d) : fora_da_janela(e)) =>
                  pode_ver(d.profissional, d.paciente, "historico_completo")


\* ------------------------------------------------------------------- C2
RotasDeRevogacao == {"revogar_acesso", "revogar_consentimento_paciente"}

\* the gate of the Link of row i, for one category
pode_ver_vinculo(i, categoria) ==
    pode_ver(vinculos[i].profissional_id, vinculos[i].paciente_id, categoria)

\* C2: right after a revocation of an active Link, by the patient or by the
\* professional, the gate is closed for every category; and a closed gate
\* opens again only in a step that accepts or reactivates that Link.
C2_RevogacaoFechaOAcesso ==
    [][ /\ \A i \in Ids, c \in Categorias :
              ( /\ resp'.rota \in RotasDeRevogacao
                /\ resp'.resultado = "ok"
                /\ resp'.vid = i
                /\ vinculos[i].status = "ativo" )
              => ~pode_ver_vinculo(i, c)'
        /\ \A i \in Ids, c \in Categorias :
              (~pode_ver_vinculo(i, c) /\ pode_ver_vinculo(i, c)')
                 => /\ resp'.rota \in {"confirmar_convite",
                                       "reativar_consentimento"}
                    /\ resp'.vid = i
      ]_vars

\* a professional has just revoked an access that was open: the Link keeps
\* its consent flag and its capability flags, and the gate is closed
C2_Witness ==
    /\ resp.rota = "revogar_acesso"
    /\ resp.resultado = "ok"
    /\ vinculos[resp.vid].consentimento_ativo
    /\ vinculos[resp.vid].pode_ver_emocoes
    /\ ~pode_ver_vinculo(resp.vid, "emocoes")

\* ------------------------------------------------------------------- C3
ConviteRecusado == {"ja_vinculado", "pendente", "sem_mensagem"}

\* C3: a pair never has two Links that are not revoked; an invitation adds
\* a Link only for a pair that has none; and an invitation for a pair whose
\* Link is pending, active or expired is refused and changes no Link.
C3_UmVinculoPorPar ==
    [][ /\ \A i \in 1..Len(vinculos'), j \in 1..Len(vinculos') :
              ( /\ i # j
                /\ vinculos'[i].profissional_id = vinculos'[j].profissional_id
                /\ vinculos'[i].paciente_id = vinculos'[j].paciente_id )
              => \/ vinculos'[i].status = "revogado"
                 \/ vinculos'[j].status = "revogado"
        /\ resp'.rota = "convidar_paciente" =>
              /\ \A i \in Ids :
                    ( /\ resp'.vid = i
                      /\ vinculos[i].status # "revogado" )
                    => /\ resp'.resultado \in ConviteRecusado
                       /\ vinculos' = vinculos
              /\ Len(vinculos') > Len(vinculos) =>
                    \A i \in Ids :
                       \/ vinculos[i].profissional_id
                             # vinculos'[Len(vinculos')].profissional_id
                       \/ vinculos[i].paciente_id
                             # vinculos'[Len(vinculos')].paciente_id
      ]_vars

\* an invitation was refused because the Link of the pair has expired
C3_Witness ==
    /\ resp.rota = "convidar_paciente"
    /\ resp.resultado = "sem_mensagem"
    /\ vinculos[resp.vid].status = "expirado"

\* ------------------------------------------------------------------- C4
ConviteEmitido == {"convite_enviado", "novo_convite"}

\* C4: no two Links hold the same code, and a code that an invitation or a
\* reissue generates is held by no Link at that moment.
C4_CodigosUnicos ==
    [][ /\ \A i \in 1..Len(vinculos'), j \in 1..Len(vinculos') :
              i # j => vinculos'[i].codigo_convite # vinculos'[j].codigo_convite
        /\ ( /\ resp'.rota = "convidar_paciente"
             /\ resp'.resultado \in ConviteEmitido )
           => \A i \in Ids :
                 vinculos[i].codigo_convite
                    # vinculos'[resp'.vid].codigo_convite
      ]_vars

\* a revoked Link was given a new code while another Link holds one
C4_Witness ==
    /\ resp.rota = "convidar_paciente"
    /\ resp.resultado = "novo_convite"
    /\ Len(vinculos) = 2

\* ------------------------------------------------------------------- C5
concedidos(i) ==
    {k \in 1..Len(consentimentos) :
        consentimentos[k].vinculo_id = i /\ consentimentos[k].acao = "concedido"}

\* C5: a confirmation is applied only to a pending Link; a confirmation
\* that is not applied changes neither the Links nor the ledger; a Link
\* becomes active only from pending; and no 'concedido' record is added for
\* a Link that is active, revoked or expired.
C5_AceiteSoDePendente ==
    [][ /\ resp'.rota = "confirmar_convite" =>
              IF resp'.resultado = "ok"
              THEN vinculos[resp'.vid].status = "pendente"
              ELSE UNCHANGED <<vinculos, consentimentos>>
        /\ \A i \in Ids :
              vinculos[i].status \in {"ativo", "revogado", "expirado"}
                 => /\ vinculos'[i].status = "ativo"
                         => vinculos[i].status = "ativo"
                    /\ concedidos(i)' = concedidos(i)
      ]_vars

\* a confirmation was answered 404 while the Link is active, with its one
\* 'concedido' record
C5_Witness ==
    /\ resp.rota = "confirmar_convite"
    /\ resp.resultado = "404"
    /\ \E i \in Ids : /\ vinculos[i].status = "ativo"
                      /\ Cardinality(concedidos(i)) = 1

\* ------------------------------------------------------------------- C6
\* C6: no confirmation succeeds on a Link invited more than 30 days before.
C6_SemAceiteAposExpiracao ==
    ( /\ resp.rota = "confirmar_convite"
      /\ resp.resultado = "ok" )
    => agora - vinculos[resp.vid].data_convite <= DiasExpiracao * TicksPorDia


\* ------------------------------------------------------------------- C7
registros(i) ==
    {k \in 1..Len(consentimentos) : consentimentos[k].vinculo_id = i}

\* a confirmation with full consent has just been applied to Link i, which
\* had no consent record: the Link was invited and nothing else
AceiteCompletoDeConvite(i) ==
    /\ resp'.rota = "confirmar_convite"
    /\ resp'.resultado = "ok"
    /\ resp'.form = "true"
    /\ resp'.vid = i
    /\ registros(i) = {}

AceitoComUmRegistro(i) ==
    /\ vinculos'[i].status = "ativo"
    /\ vinculos'[i].consentimento_ativo
    /\ Cardinality(registros(i)') = 1
    /\ \A k \in registros(i)' : consentimentos'[k].acao = "concedido"

\* C7, as stated: after an invitation and an acceptance with full consent
\* the Link is active and consented, its four capability flags are true,
\* and the ledger holds one record of the Link, a 'concedido'.
C7_AceiteCompletoQuatroFlags ==
    [][ \A i \in Ids :
           AceiteCompletoDeConvite(i) =>
              /\ AceitoComUmRegistro(i)
              /\ vinculos'[i].pode_ver_historico_completo
              /\ vinculos'[i].pode_ver_emocoes
              /\ vinculos'[i].pode_ver_ciclos
              /\ vinculos'[i].pode_ver_rituais
      ]_vars

\* C7, amended: ... its flags full-history, emotions and cycles are true and
\* its flag rituals keeps its default, false, ...
C7_AceiteCompleto ==
    [][ \A i \in Ids :
           AceiteCompletoDeConvite(i) =>
              /\ AceitoComUmRegistro(i)
              /\ vinculos'[i].pode_ver_historico_completo
              /\ vinculos'[i].pode_ver_emocoes
              /\ vinculos'[i].pode_ver_ciclos
              /\ ~vinculos'[i].pode_ver_rituais
      ]_vars

\* an invited Link has just been accepted with full consent
C7_Witness ==
    /\ resp.rota = "confirmar_convite"
    /\ resp.resultado = "ok"
    /\ resp.form = "true"
    /\ Cardinality(registros(resp.vid)) = 1
    /\ vinculos[resp.vid].pode_ver_historico_completo
    /\ vinculos[resp.vid].status = "ativo"

\* ------------------------------------------------------------------- C8
\* C8: a confirmation with partial consent leaves the Link without the
\* capabilities full-history and rituals.
C8_AceiteParcial ==
    [][ \A i \in Ids :
           ( /\ resp'.rota = "confirmar_convite"
             /\ resp'.resultado = "ok"
             /\ resp'.form # "true"
             /\ resp'.vid = i )
           => /\ ~vinculos'[i].pode_ver_historico_completo
              /\ ~vinculos'[i].pode_ver_rituais
      ]_vars

\* an invited Link, whose full-history flag was the default true, has just
\* been accepted with partial consent
C8_Witness ==
    /\ resp.rota = "confirmar_convite"
    /\ resp.resultado = "ok"
    /\ resp.form = "false"
    /\ Cardinality(registros(resp.vid)) = 1
    /\ ~vinculos[resp.vid].pode_ver_historico_completo
    /\ vinculos[resp.vid].status = "ativo"

\* ------------------------------------------------------------------- C9
\* C9: a revocation of an active Link, by the patient or by the
\* professional, leaves it revoked, without consent, with revoked-at now
\* and a reason, and appends one 'revogado' record of the Link.
C9_RevogacaoCompleta ==
    [][ \A i \in Ids :
           ( /\ resp'.rota \in RotasDeRevogacao
             /\ resp'.resultado = "ok"
             /\ resp'.vid = i
             /\ vinculos[i].status = "ativo" )
           => /\ vinculos'[i].status = "revogado"
              /\ ~vinculos'[i].consentimento_ativo
              /\ vinculos'[i].data_revogacao = agora
              /\ vinculos'[i].motivo_revogacao # SemMotivo
              /\ Len(consentimentos') = Len(consentimentos) + 1
              /\ consentimentos'[Len(consentimentos')].vinculo_id = i
              /\ consentimentos'[Len(consentimentos')].acao = "revogado"
      ]_vars

\* ------------------------------------------------------------------ C10
\* C10: a revocation is applied only to an active Link, and a revocation
\* that is not applied changes neither the Links nor the ledger.
C10_RevogacaoSoDeAtivo ==
    [][ resp'.rota \in RotasDeRevogacao =>
           IF resp'.resultado = "ok"
           THEN vinculos[resp'.vid].status = "ativo"
           ELSE UNCHANGED <<vinculos, consentimentos>>
      ]_vars

\* ------------------------------------------------------------------ C11
\* C11: an invitation for a pair that has a Link reissues it when, and only
\* when, the Link is revoked; for a pending, active or expired Link it
\* reissues nothing and leaves every field of the Link as it was.
C11_ReenvioSoDeRevogado ==
    [][ \A i \in Ids :
           ( /\ resp'.rota = "convidar_paciente"
             /\ resp'.vid = i )
           => IF vinculos[i].status = "revogado"
              THEN resp'.resultado = "novo_convite"
              ELSE /\ resp'.resultado # "novo_convite"
                   /\ vinculos'[i] = vinculos[i]
      ]_vars

\* a Link that was revoked and reissued is pending again, and a further
\* invitation for its pair was refused
C11_Witness ==
    /\ resp.rota = "convidar_paciente"
    /\ resp.resultado = "pendente"
    /\ vinculos[resp.vid].status = "pendente"
    /\ vinculos[resp.vid].data_revogacao # SemData

\* ------------------------------------------------------------------ C12
\* C12: after a reissue the Link is pending, and its revoked-at and its
\* revocation reason are cleared.
C12_ReenvioLimpaRevogacao ==
    [][ \A i \in Ids :
           ( /\ resp'.rota = "convidar_paciente"
             /\ resp'.resultado = "novo_convite"
             /\ resp'.vid = i )
           => /\ vinculos'[i].status = "pendente"
              /\ vinculos'[i].data_revogacao = SemData
              /\ vinculos'[i].motivo_revogacao = SemMotivo
      ]_vars

\* ------------------------------------------------------------------ C13
\* C13: a reissue gives the Link a code other than the one it held, keeps
\* the Link in its row with its pair, adds no Link, leaves the other Links
\* as they were, and leaves the ledger as it was.
C13_ReenvioNoMesmoVinculo ==
    [][ \A i \in Ids :
           ( /\ resp'.rota = "convidar_paciente"
             /\ resp'.resultado = "novo_convite"
             /\ resp'.vid = i )
           => /\ vinculos'[i].codigo_convite # vinculos[i].codigo_convite
              /\ vinculos'[i].profissional_id = vinculos[i].profissional_id
              /\ vinculos'[i].paciente_id = vinculos[i].paciente_id
              /\ Len(vinculos') = Len(vinculos)
              /\ \A j \in Ids : j # i => vinculos'[j] = vinculos[j]
              /\ consentimentos' = consentimentos
      ]_vars

\* a Link with a 'concedido' and a 'revogado' record has just been reissued
C13_Witness ==
    /\ resp.rota = "convidar_paciente"
    /\ resp.resultado = "novo_convite"
    /\ Cardinality(registros(resp.vid)) = 2
    /\ vinculos[resp.vid].status = "pendente"

\* ------------------------------------------------------------------ C14
\* C14: a Link that is expired stays expired, whatever the operation.
C14_ExpiradoTerminal ==
    [][ \A i \in Ids :
           vinculos[i].status = "expirado" => vinculos'[i].status = "expirado"
      ]_vars

\* ------------------------------------------------------------------ C15
RotasQueLeemConvite ==
    {"aceitar_convite", "confirmar_convite", "convidar_paciente"}

\* C15: the invitation view, the confirmation and the re-invitation, when
\* they resolve a pending Link invited more than 30 days before, leave it
\* expired.
C15_ExpiracaoEmTodaLeitura ==
    [][ \A i \in Ids :
           ( /\ resp'.rota \in RotasQueLeemConvite
             /\ resp'.vid = i
             /\ convite_expirou(vinculos[i]) )
           => vinculos'[i].status = "expirado"
      ]_vars

\* ------------------------------------------------------------------ C16
\* C16: a reactivation of a revoked Link leaves it active and consented,
\* without revoked-at and reason, with its code, and adds no record; a
\* reactivation of a Link that is pending, active or expired leaves the
\* Link as it was.
C16_ReativarSoDeRevogado ==
    [][ \A i \in Ids :
           ( /\ resp'.rota = "reativar_consentimento"
             /\ resp'.vid = i )
           => /\ consentimentos' = consentimentos
              /\ IF vinculos[i].status = "revogado"
                 THEN /\ vinculos'[i].status = "ativo"
                      /\ vinculos'[i].consentimento_ativo
                      /\ vinculos'[i].data_revogacao = SemData
                      /\ vinculos'[i].motivo_revogacao = SemMotivo
                      /\ vinculos'[i].codigo_convite
                            = vinculos[i].codigo_convite
                 ELSE vinculos'[i] = vinculos[i]
      ]_vars

\* ------------------------------------------------------------------ C17
\* C17: every step keeps each record of the ledger, with its fields, at
\* its place: the ledger only grows at its end.
C17_LivroSoCresce ==
    [][ /\ Len(consentimentos') >= Len(consentimentos)
        /\ \A k \in 1..Len(consentimentos) :
              consentimentos'[k] = consentimentos[k]
      ]_vars

\* the ledger holds three records, the first one written 33 days before
\* the last
C17_Witness ==
    /\ Len(consentimentos) = 3
    /\ consentimentos[1].acao = "concedido"
    /\ consentimentos[2].acao = "revogado"
    /\ consentimentos[3].data_acao > consentimentos[1].data_acao

\* ------------------------------------------------------------------ C18
\* C18: every record added to the ledger, 'concedido' or 'revogado',
\* carries a snapshot, and the snapshot is the four flags of its Link at
\* that moment.
C18_RegistroComSnapshot ==
    [][ Len(consentimentos') > Len(consentimentos) =>
           LET r == consentimentos'[Len(consentimentos')]
           IN  r.permissoes_snapshot
                  = {get_permissoes_resumo(vinculos'[r.vinculo_id])}
      ]_vars

C20_OmissaoDeCampos ==
    resp.rota \in RotasDeLeitura =>
        \A d \in resp.dados :
            /\ d.emocoes_de # {} =>
                  \E i \in Ids : /\ vinculos[i].profissional_id = d.profissional
                                 /\ vinculos[i].paciente_id = d.paciente
                                 /\ vinculos[i].pode_ver_emocoes
            /\ d.ciclos_de # {} =>
                  \E i \in Ids : /\ vinculos[i].profissional_id = d.profissional
                                 /\ vinculos[i].paciente_id = d.paciente
                                 /\ vinculos[i].pode_ver_ciclos

\* no handler writes pode_ver_emocoes or pode_ver_ciclos: every stored Link
\* has both at their default, true
C20_FlagsNoPadrao ==
    \A i \in Ids : vinculos[i].pode_ver_emocoes /\ vinculos[i].pode_ver_ciclos

\* ------------------------------------------------------------------ C26
\* C26: a Link whose consent flag is true is active.
C26_ConsentimentoSoAtivo ==
    \A i \in Ids : vinculos[i].consentimento_ativo => vinculos[i].status = "ativo"

\* ------------------------------------------------------------------ C27
\* C27: a step changes the capability flags of a Link only when it applies
\* a confirmation with partial consent, which leaves full-history and
\* rituals false and the two others as they were; emotions and cycles are
\* true and rituals is false on every Link; and a full-history flag that is
\* false stays false.
C27_FlagsNuncaAumentam ==
    [][ \A i \in Ids :
           /\ get_permissoes_resumo(vinculos'[i])
                 # get_permissoes_resumo(vinculos[i])
               => /\ resp'.rota = "confirmar_convite"
                  /\ resp'.resultado = "ok"
                  /\ resp'.form # "true"
                  /\ resp'.vid = i
                  /\ ~vinculos'[i].pode_ver_historico_completo
                  /\ ~vinculos'[i].pode_ver_rituais
           /\ vinculos'[i].pode_ver_emocoes
           /\ vinculos'[i].pode_ver_ciclos
           /\ ~vinculos'[i].pode_ver_rituais
           /\ ~vinculos[i].pode_ver_historico_completo
               => ~vinculos'[i].pode_ver_historico_completo
      ]_vars

\* a Link once accepted with partial consent, then revoked and reissued,
\* has just been accepted with full consent, and is still without the
\* full history
C27_Witness ==
    /\ resp.rota = "confirmar_convite"
    /\ resp.resultado = "ok"
    /\ resp.form = "true"
    /\ vinculos[resp.vid].status = "ativo"
    /\ ~vinculos[resp.vid].pode_ver_historico_completo
    /\ Cardinality(concedidos(resp.vid)) = 2

\* ------------------------------------------------------------------ C30
\* the last record of Link i in the ledger, 0 if it has none
ultimo_registro(i) ==
    IF registros(i) = {} THEN 0
    ELSE CHOOSE k \in registros(i) : \A j \in registros(i) : j <= k

\* C30: the last record of an active Link is a 'concedido', and the last
\* record of a revoked Link is a 'revogado'.
C30_LivroRefleteEstado ==
    \A i \in Ids :
        /\ vinculos[i].status = "ativo" =>
              /\ ultimo_registro(i) # 0
              /\ consentimentos[ultimo_registro(i)].acao = "concedido"
        /\ vinculos[i].status = "revogado" =>
              /\ ultimo_registro(i) # 0
              /\ consentimentos[ultimo_registro(i)].acao = "revogado"

\* ------------------------------------------------------------------ C23
RotasDoPaciente == {"confirmar_convite", "revogar_consentimento_paciente"}

\* the step is a request of principal u to one of the two routes by which
\* a patient grants or revokes
PedidoDePaciente(u) ==
    \/ \E c \in CodigosURL, campo \in CamposCompleto, ip \in Enderecos :
          confirmar_convite(u, c, campo, ip)
    \/ \E j \in 1..MaxVinculos, m \in Motivos \cup {SemMotivo},
          ip \in Enderecos : revogar_consentimento_paciente(u, j, m, ip)

PedidoDeProfissional(u) ==
    \/ \E p \in 0..NumPacientes : convidar_paciente(u, p)
    \/ \E p \in Pacientes : revogar_acesso(u, p)

\* the step is a request of principal u to a route of the patient
PedidoDeConvidado(u) ==
    \/ PedidoDePaciente(u)
    \/ \E c \in CodigosURL : aceitar_convite(u, c)

PedidoDeDiario(u) ==
    \/ \E e \in Emocoes : new_entry(u, e)
    \/ view_entries(u)
    \/ \E i \in 1..MaxEntradas : view_entry(u, i)
    \/ \E i \in 1..MaxEntradas : delete_entry(u, i)
    \/ api_entries(u)

\* C24: a request to a route of the diary made without an authenticated
\* session is answered with the redirection to auth.login and leaves the
\* entries as they were; and an entry that a step adds is added by new_entry
\* for an authenticated current_user, with that user's id as its user_id.
C24_DiarioExigeLogin ==
    [][ /\ (current_user = Anonimo /\ PedidoDeDiario(current_user))
             => /\ resp' = RespLogin
                /\ entradas' = entradas
        /\ \A e \in entradas' \ entradas :
              /\ resp'.rota = "new_entry"
              /\ current_user # Anonimo
              /\ e.user_id = current_user.id
      ]_vars

\* a user who logged in has just created an entry, which is the user's own
C24_Witness ==
    /\ resp.rota = "new_entry"
    /\ sessao.aberta_por = "User"
    /\ \E e \in entradas : e.user_id = sessao.user_id

\* ------------------------------------------------------------------ C25
\* the step added one user, with that username and email and a password
\* hash that verifies against that password, and kept the others
UmUsuarioAMais(username, email, password) ==
    /\ Len(usuarios') = Len(usuarios) + 1
    /\ \A i \in 1..Len(usuarios) : usuarios'[i] = usuarios[i]
    /\ usuarios'[Len(usuarios')].username = username
    /\ usuarios'[Len(usuarios')].email = email
    /\ check_password(usuarios'[Len(usuarios')], password)

\* no two users share a username or an email, after the step
SemUsuariosRepetidos ==
    \A i \in 1..Len(usuarios'), j \in 1..Len(usuarios') :
        i # j => /\ usuarios'[i].username # usuarios'[j].username
                 /\ usuarios'[i].email # usuarios'[j].email

NaoEmUso(username, email) ==
    por_username(username) = 0 /\ por_email(email) = 0

\* the fields of the form pass their validators, uniqueness aside
CamposValidos(username, email, password, password2) ==
    /\ Length(username, 3, 64)
    /\ Email(email) /\ Length(email, 1, 120)
    /\ Length(password, 8, 128)
    /\ password2 = password

C29_SessaoDeProfissionalNaoEPaciente ==
    sessao.aberta_por = "ProfissionalSaude"
    => ~(current_user.tipo = "User" /\ current_user.id = sessao.user_id)

\* ------------------------------------------------------------------ C21
\* C21: a commit that makes a Link active, or revoked, is the commit that
\* appends the record of it: a 'concedido', or a 'revogado', of that Link.
C21_TransicaoAtomica ==
    [][ \A i \in Ids :
           /\ vinculos'[i].status # vinculos[i].status
           /\ vinculos'[i].status \in {"ativo", "revogado"}
           => /\ consentimentos' # consentimentos
              /\ LET registro == consentimentos'[Len(consentimentos')] IN
                 /\ registro.vinculo_id = i
                 /\ registro.acao = IF vinculos'[i].status = "ativo"
                                    THEN "concedido" ELSE "revogado"
      ]_vars

\* ------------------------------------------------------------------ C22
\* two records of Link i that follow one another among the records of i
seguidos(i, j, k) ==
    /\ j \in registros(i) /\ k \in registros(i) /\ j < k
    /\ \A m \in registros(i) : ~(j < m /\ m < k)

\* C22: once the requests in flight are answered, no Link is revoked with
\* consent true or active with consent false, and no Link has two
\* 'concedido' records with no 'revogado' between them.
C22_ComoEmSequencia ==
    EmVoo = {}
    => \A i \in Ids :
          /\ ~(vinculos[i].status = "revogado" /\ vinculos[i].consentimento_ativo)
          /\ ~(vinculos[i].status = "ativo" /\ ~vinculos[i].consentimento_ativo)
          /\ \A j \in registros(i), k \in registros(i) :
                seguidos(i, j, k)
                => ~(/\ consentimentos[j].acao = "concedido"
                     /\ consentimentos[k].acao = "concedido")

====
